---- MODULE Spec2Model ----
(***************************************************************************)
(* Model of the web-scraper tool server                                    *)
(* (src/servers/mcp-server-web-python/src/main.py).                        *)
(*                                                                         *)
(* The server answers two request kinds: list-tools and call-tool.  A      *)
(* call-tool invocation runs handle_call_tool, which dispatches on the     *)
(* tool name to fetch_url, extract_links or extract_text inside one        *)
(* try/except.  fetch_url and extract_links suspend once, at               *)
(* `await client.get(url)`; that suspension point is the only place where  *)
(* a handler is split into two steps.                                      *)
(*                                                                         *)
(* Python text is modelled by TLA+ strings, a dict by a function from its  *)
(* keys, an insertion-ordered dict that is serialised by a sequence of     *)
(* <<key, value>> pairs, an exception by a record [raised |-> TRUE, ...].  *)
(***************************************************************************)
EXTENDS Integers, Sequences, FiniteSets, TLC

VARIABLES
  pc,         \* "idle" | "awaiting" (suspended in client.get) | "returned"
  name,       \* tool name of the current invocation
  arguments,  \* its argument mapping, or None
  frame,      \* locals of the suspended handler (url, timeout / base_url)
  response,   \* what client.get produced for the current invocation
  result,     \* the handler's local `result` / `links` before serialisation
  failure,    \* the exception raised inside the try block, or NoFailure
  returned,   \* ToolResults handed to the transport for this invocation
  escaped,    \* exceptions that left handle_call_tool uncaught
  gets,       \* client.get calls made by the current invocation
  parses,     \* BeautifulSoup(...) calls made by the current invocation
  listed,     \* output of the latest list-tools request
  served      \* requests completed so far (capped)

vars == <<pc, name, arguments, frame, response, result, failure, returned,
          escaped, gets, parses, listed, served>>

-----------------------------------------------------------------------------
(* Bounds of the model *)

\* requests counted before the counter saturates
MaxServed == 2
\* length of the long page text is TextLimit + LongExtra
LongExtra == 2

-----------------------------------------------------------------------------
(* Program constants *)

\* args.get("timeout", 30)
DefaultTimeout == 30
\* soup.get_text(strip=True)[:1000]
TextLimit == 1000

-----------------------------------------------------------------------------
(* Python string primitives *)

Min(a, b) == IF a < b THEN a ELSE b

\* s[:n]
Prefix(s, n) == SubSeq(s, 1, Min(n, Len(s)))

\* s[n:]  (n counted from 0)
Suffix(s, n) == SubSeq(s, n + 1, Len(s))

\* needle in hay
Contains(hay, needle) ==
  \E i \in 0..(Len(hay) - Len(needle)) : SubSeq(hay, i + 1, i + Len(needle)) = needle

StartsWith(s, p) == Len(s) >= Len(p) /\ SubSeq(s, 1, Len(p)) = p

\* s.find(c) + 1: position of the first occurrence of c, 0 when there is none
Find(s, c) ==
  IF Contains(s, c)
  THEN CHOOSE i \in 1..Len(s) :
         /\ SubSeq(s, i, i + Len(c) - 1) = c
         /\ \A j \in 1..(i - 1) : SubSeq(s, j, j + Len(c) - 1) # c
  ELSE 0

RECURSIVE LStrip(_)
LStrip(s) == IF s # "" /\ SubSeq(s, 1, 1) = " " THEN LStrip(Suffix(s, 1)) ELSE s

RECURSIVE RStrip(_)
RStrip(s) ==
  IF s # "" /\ SubSeq(s, Len(s), Len(s)) = " " THEN RStrip(Prefix(s, Len(s) - 1)) ELSE s

\* s.strip()
Strip(s) == RStrip(LStrip(s))

\* s.split(sep)
RECURSIVE Split(_, _)
SplitAt(s, sep, p) ==
  IF p = 0 THEN <<s>>
  ELSE <<Prefix(s, p - 1)>> \o Split(Suffix(s, p + Len(sep) - 1), sep)

Split(s, sep) == SplitAt(s, sep, Find(s, sep))

\* sep.join(parts)
RECURSIVE Join(_, _)
Join(parts, sep) ==
  IF parts = <<>> THEN ""
  ELSE IF Len(parts) = 1 THEN parts[1]
  ELSE parts[1] \o sep \o Join(Tail(parts), sep)

\* s * n
RECURSIVE Repeat(_, _)
Repeat(s, n) ==
  IF n = 0 THEN ""
  ELSE IF n % 2 = 1 THEN s \o Repeat(s, n - 1)
  ELSE LET half == Repeat(s, n \div 2) IN half \o half

-----------------------------------------------------------------------------
(* Exceptions and values *)

None == [none |-> TRUE]
NoFailure == [raised |-> FALSE]
Raise(type, msg) == [raised |-> TRUE, type |-> type, msg |-> msg]

EmptyDict == [k \in {} |-> ""]

\* arguments or {}
OrEmpty(a) == IF a = None \/ DOMAIN a = {} THEN EmptyDict ELSE a

\* value of key k in an insertion-ordered dict given as <<key, value>> pairs
Keys(pairs) == {pairs[i][1] : i \in 1..Len(pairs)}
Field(pairs, k) == pairs[CHOOSE i \in 1..Len(pairs) : pairs[i][1] = k][2]

-----------------------------------------------------------------------------
(* urllib.parse.urljoin, as called at main.py:159 *)

UsesRelative == {"", "http", "https", "ftp", "file"}

\* the result of urlsplit; an unbalanced bracket in the netloc is
\* ValueError("Invalid IPv6 URL")
SplitResult(scheme, netloc, path) ==
  [scheme |-> scheme, netloc |-> netloc, path |-> path,
   bad    |-> Contains(netloc, "[") # Contains(netloc, "]")]

\* the netloc runs from after "//" to the next "/", found at position j
SplitNetloc(scheme, after, j) ==
  IF j = 0 THEN SplitResult(scheme, after, "")
  ELSE SplitResult(scheme, Prefix(after, j - 1), Suffix(after, j - 1))

SplitRest(scheme, rest) ==
  IF StartsWith(rest, "//")
  THEN SplitNetloc(scheme, Suffix(rest, 2), Find(Suffix(rest, 2), "/"))
  ELSE SplitResult(scheme, "", rest)

\* the text before the first ":", at position i, is a scheme when it holds no "/"
SplitScheme(url, default, i) ==
  IF i > 1 /\ ~Contains(Prefix(url, i - 1), "/")
  THEN SplitRest(Prefix(url, i - 1), Suffix(url, i))
  ELSE SplitRest(default, url)

\* urlsplit(url, scheme)
UrlSplit(url, default) == SplitScheme(url, default, Find(url, ":"))

\* urlunsplit
UrlUnsplit(scheme, netloc, path) ==
  LET p == IF netloc # "" /\ path # "" /\ ~StartsWith(path, "/")
           THEN "/" \o path ELSE path
      u == IF netloc # "" \/ (scheme # "" /\ ~StartsWith(p, "//"))
           THEN "//" \o netloc \o p ELSE p
  IN  IF scheme # "" THEN scheme \o ":" \o u ELSE u

\* segments[1:-1] = filter(None, segments[1:-1])
DropEmptyInner(segs) ==
  IF Len(segs) < 3 THEN segs
  ELSE <<segs[1]>>
       \o SelectSeq(SubSeq(segs, 2, Len(segs) - 1), LAMBDA x : x # "")
       \o <<segs[Len(segs)]>>

\* the loop that resolves "." and ".." segments
RECURSIVE ResolveSegments(_, _)
ResolveSegments(segs, acc) ==
  IF segs = <<>> THEN acc
  ELSE IF Head(segs) = ".."
       THEN ResolveSegments(Tail(segs),
                            IF acc = <<>> THEN acc ELSE SubSeq(acc, 1, Len(acc) - 1))
  ELSE IF Head(segs) = "." THEN ResolveSegments(Tail(segs), acc)
  ELSE ResolveSegments(Tail(segs), Append(acc, Head(segs)))

\* base_parts of urljoin: the base path without its last segment
BaseParts(bp) == IF bp[Len(bp)] # "" THEN SubSeq(bp, 1, Len(bp) - 1) ELSE bp

\* segments of urljoin
Segments(bpath, path) ==
  IF StartsWith(path, "/") THEN Split(path, "/")
  ELSE DropEmptyInner(BaseParts(Split(bpath, "/")) \o Split(path, "/"))

\* resolved_path of urljoin, joined; "/" when empty
JoinResolved(segments) ==
  LET joined == Join(IF segments[Len(segments)] \in {".", ".."}
                     THEN Append(ResolveSegments(segments, <<>>), "")
                     ELSE ResolveSegments(segments, <<>>), "/")
  IN  IF joined = "" THEN "/" ELSE joined

Joined(url) == [raised |-> FALSE, value |-> url]

\* urljoin once base (b) and url (u) are split
UrlJoinSplit(url, b, u) ==
  IF b.bad \/ u.bad THEN Raise("ValueError", "Invalid IPv6 URL")
  ELSE IF u.scheme # b.scheme \/ u.scheme \notin UsesRelative THEN Joined(url)
  ELSE IF u.netloc # "" THEN Joined(UrlUnsplit(u.scheme, u.netloc, u.path))
  ELSE IF u.path = "" THEN Joined(UrlUnsplit(u.scheme, b.netloc, b.path))
  ELSE Joined(UrlUnsplit(u.scheme, b.netloc, JoinResolved(Segments(b.path, u.path))))

UrlJoinBase(url, b) == UrlJoinSplit(url, b, UrlSplit(url, b.scheme))

\* urljoin(base, url); a record [raised |-> TRUE, ...] when urlsplit raises
UrlJoin(base, url) ==
  IF base = "" THEN Joined(url)
  ELSE IF url = "" THEN Joined(base)
  ELSE UrlJoinBase(url, UrlSplit(base, ""))

-----------------------------------------------------------------------------
(* The HTML parser.  Markup is kept as the sequence of its elements, each  *)
(* with a tag ("" for bare text), its attributes and its text.             *)

Element(tag, attrs, text) == [tag |-> tag, attrs |-> attrs, text |-> text]

\* The markup the model feeds the parser, with the elements html.parser
\* finds in each.  Attribute values are written without quotes.
Documents ==
  { [text     |-> "<title>Example</title><a href=/page>Link</a><a>Bare</a><p> A </p><p>B</p>",
     contents |-> << Element("title", EmptyDict, "Example"),
                     Element("a", [href |-> "/page"], "Link"),
                     Element("a", EmptyDict, "Bare"),
                     Element("p", EmptyDict, " A "),
                     Element("p", EmptyDict, "B") >>],
    [text     |-> "<a href=../up>Up</a><a>Bare</a><a href=//cdn.example.org/x.js> Cdn </a><a href=>Empty</a>",
     contents |-> << Element("a", [href |-> "../up"], "Up"),
                     Element("a", EmptyDict, "Bare"),
                     Element("a", [href |-> "//cdn.example.org/x.js"], " Cdn "),
                     Element("a", [href |-> ""], "Empty") >>],
    [text     |-> "<p>" \o Repeat("x", TextLimit + LongExtra) \o "</p>",
     contents |-> << Element("p", EmptyDict, Repeat("x", TextLimit + LongExtra)) >>],
    [text     |-> "<a href=next>Next</a><a href=http://[bad>Bad</a>",
     contents |-> << Element("a", [href |-> "next"], "Next"),
                     Element("a", [href |-> "http://[bad"], "Bad") >>],
    [text     |-> "[1, 2]",
     contents |-> << Element("", EmptyDict, "[1, 2]") >>],
    [text     |-> "",
     contents |-> << >>] }

Markups == {d.text : d \in Documents}

\* BeautifulSoup(markup, "html.parser"): fault tolerant, never raises
BeautifulSoup(markup) ==
  [contents |-> (CHOOSE d \in Documents : d.text = markup).contents]

\* soup.title
HasTitle(soup) == \E i \in 1..Len(soup.contents) : soup.contents[i].tag = "title"
TitleOf(soup) ==
  soup.contents[CHOOSE i \in 1..Len(soup.contents) :
                  /\ soup.contents[i].tag = "title"
                  /\ \A j \in 1..(i - 1) : soup.contents[j].tag # "title"]

\* el.get_text(strip=True)
ElementText(el) == Strip(el.text)

\* soup.get_text(strip=True): the stripped, non-empty strings, joined by ""
RECURSIVE ConcatTexts(_)
ConcatTexts(els) ==
  IF els = <<>> THEN "" ELSE ElementText(Head(els)) \o ConcatTexts(Tail(els))

GetText(soup) == ConcatTexts(soup.contents)

\* soup.find_all("a", href=True)
FindAllAnchorsWithHref(soup) ==
  SelectSeq(soup.contents, LAMBDA el : el.tag = "a" /\ "href" \in DOMAIN el.attrs)

\* a selector the CSS parser accepts: its brackets are balanced
SelectorValid(selector) == Contains(selector, "[") = Contains(selector, "]")

\* soup.select(selector) for a type selector
Select(soup, selector) ==
  IF ~SelectorValid(selector)
  THEN Raise("SelectorSyntaxError", "Malformed attribute selector")
  ELSE [raised |-> FALSE,
        value  |-> SelectSeq(soup.contents, LAMBDA el : el.tag = selector)]

-----------------------------------------------------------------------------
(* json.dumps(obj, indent=2).  The strings of this model hold no character *)
(* that JSON escapes.                                                      *)

JsonString(s) == "\"" \o s \o "\""

\* status_code is the one integer field, every other field is a string
JsonMember(pair) ==
  JsonString(pair[1]) \o ": "
    \o (IF pair[1] = "status_code" THEN ToString(pair[2]) ELSE JsonString(pair[2]))

JsonObject(pairs, indent) ==
  IF pairs = <<>> THEN "{}"
  ELSE "{\n"
       \o Join([i \in 1..Len(pairs) |-> indent \o "  " \o JsonMember(pairs[i])], ",\n")
       \o "\n" \o indent \o "}"

JsonArray(objs) ==
  IF objs = <<>> THEN "[]"
  ELSE "[\n"
       \o Join([i \in 1..Len(objs) |-> "  " \o JsonObject(objs[i], "  ")], ",\n")
       \o "\n]"

-----------------------------------------------------------------------------
(* mcp.types values *)

Tool(n, description, inputSchema) ==
  [name |-> n, description |-> description, inputSchema |-> inputSchema]

Property(type, description) == [type |-> type, description |-> description]

TextContent(text) == [type |-> "text", text |-> text]

\* CallToolResult(content=..., isError=...)
CallToolResult(content, isError) == [content |-> content, isError |-> isError]

\* CallToolResult(content=...): isError defaults to False
CallToolResultOk(content) == CallToolResult(content, FALSE)

-----------------------------------------------------------------------------
(* The tool catalog: handle_list_tools *)

Catalog ==
  <<
     Tool("fetch_url", "Fetch content from a URL",
          [type       |-> "object",
           properties |-> [url     |-> Property("string", "The URL to fetch"),
                           timeout |-> [type        |-> "number",
                                        description |-> "Request timeout in seconds",
                                        default     |-> DefaultTimeout]],
           required   |-> <<"url">>]),
     Tool("extract_links", "Extract all links from a webpage",
          [type       |-> "object",
           properties |-> [url      |-> Property("string", "The URL to extract links from"),
                           base_url |-> Property("string", "Base URL for relative links")],
           required   |-> <<"url">>]),
     Tool("extract_text", "Extract clean text content from HTML",
          [type       |-> "object",
           properties |-> [html     |-> Property("string", "HTML content to extract text from"),
                           selector |-> Property("string", "CSS selector to target specific elements")],
           required   |-> <<"html">>]) >>

\* a catalog that loses its last tool once a call has failed
HandleListToolsAfterFailure ==
  [tools |-> IF failure.raised THEN SubSeq(Catalog, 1, 2) ELSE Catalog]

\* lines 34-93: ListToolsResult(tools=[...])
HandleListTools == [tools |-> Catalog]

-----------------------------------------------------------------------------
(* What a handler does up to its next suspension point or its end.         *)
(*   raise  : an exception leaves the handler                              *)
(*   await  : the handler called client.get and is suspended               *)
(*   return : the handler returned a CallToolResult                        *)
(* `parses` counts the BeautifulSoup calls made on the way.                *)

Raised(exc, n) == [kind |-> "raise", exc |-> exc, parses |-> n]

Await(fr) == [kind |-> "await", frame |-> fr, parses |-> 0]

Return(value, local, n) ==
  [kind |-> "return", value |-> value, local |-> local,
   failure |-> NoFailure, parses |-> n]

\* args["k"] on a dict without k: str(KeyError("k")) is "'k'"
KeyError(k) == Raise("KeyError", "'" \o k \o "'")

\* args.get(k, default)
Get(args, k, default) == IF k \in DOMAIN args THEN args[k] ELSE default

\* response.headers.get("content-type", "")
ContentType(resp) == Get(resp.headers, "content-type", "")

\* a status check that lets everything below 400 through
RaiseForStatusErrorsOnly(resp) ==
  IF resp.status_code < 400 THEN NoFailure
  ELSE Raise("HTTPStatusError", "Error '" \o ToString(resp.status_code) \o "'")

\* response.raise_for_status(): httpx raises HTTPStatusError unless 2xx
RaiseForStatus(resp) ==
  IF 200 <= resp.status_code /\ resp.status_code <= 299 THEN NoFailure
  ELSE Raise("HTTPStatusError",
             (IF resp.status_code < 200 THEN "Informational response"
              ELSE IF resp.status_code < 400 THEN "Redirect response"
              ELSE IF resp.status_code < 500 THEN "Client error"
              ELSE "Server error")
             \o " '" \o ToString(resp.status_code) \o "' for url '" \o resp.url \o "'")

-----------------------------------------------------------------------------
(* fetch_url *)

\* lines 115-119: read the arguments, open the client, call client.get
FetchUrlBegin(args) ==
  IF "url" \notin DOMAIN args THEN Raised(KeyError("url"), 0)
  ELSE Await([tool    |-> "fetch_url",
              url     |-> args["url"],
              timeout |-> Get(args, "timeout", DefaultTimeout)])

\* "text/html" in content_type
IsHtml(content_type) == Contains(content_type, "text/html")

\* a preview that marks only the texts it cut
TextPreviewWhenCut(soup) ==
  IF Len(GetText(soup)) > TextLimit THEN Prefix(GetText(soup), TextLimit) \o "..."
  ELSE GetText(soup)

\* soup.get_text(strip=True)[:1000] + "..."
TextPreview(soup) == Prefix(GetText(soup), TextLimit) \o "..."

\* lines 122-140: the result dict, in insertion order
FetchResult(resp) ==
  LET content_type == ContentType(resp)
      soup         == BeautifulSoup(resp.text)
      title        == IF HasTitle(soup) THEN TitleOf(soup).text ELSE "No title"
  IN  IF IsHtml(content_type)
      THEN << <<"url", resp.url>>,
              <<"status_code", resp.status_code>>,
              <<"content_type", content_type>>,
              <<"title", title>>,
              <<"content", resp.text>>,
              <<"text_content", TextPreview(soup)>> >>
      ELSE << <<"url", resp.url>>,
              <<"status_code", resp.status_code>>,
              <<"content_type", content_type>>,
              <<"content", resp.text>> >>

\* lines 120-144: the response is there
FetchUrlShape(resp) ==
  IF RaiseForStatus(resp).raised THEN Raised(RaiseForStatus(resp), 0)
  ELSE Return(CallToolResultOk(<<TextContent(JsonObject(FetchResult(resp), ""))>>),
              FetchResult(resp),
              IF IsHtml(ContentType(resp)) THEN 1 ELSE 0)

\* a fetch_url that calls client.get again after a failed request
FetchUrlResumeRetry(fr, outcome) ==
  IF outcome.kind = "error"
  THEN IF gets < 2 THEN Await(fr) ELSE Raised(outcome.exc, 0)
  ELSE FetchUrlShape(outcome)

\* lines 119-144: client.get completed with `outcome`
FetchUrlResume(fr, outcome) ==
  IF outcome.kind = "error" THEN Raised(outcome.exc, 0)
  ELSE FetchUrlShape(outcome)

-----------------------------------------------------------------------------
(* extract_links *)

\* a base that ignores the base_url argument
BaseUrlIsUrl(args, url) == url

\* args.get("base_url", url)
BaseUrl(args, url) == Get(args, "base_url", url)

\* an extract_links that reads url with args.get and so always requests
ExtractLinksBeginUnchecked(args) ==
  Await([tool     |-> "extract_links",
         url      |-> Get(args, "url", ""),
         base_url |-> BaseUrl(args, Get(args, "url", ""))])

\* lines 147-151
ExtractLinksBegin(args) ==
  IF "url" \notin DOMAIN args THEN Raised(KeyError("url"), 0)
  ELSE Await([tool     |-> "extract_links",
              url      |-> args["url"],
              base_url |-> BaseUrl(args, args["url"])])

\* lines 158-164: the record appended for one anchor
LinkRecord(link, base_url) ==
  << <<"text", ElementText(link)>>,
     <<"href", link.attrs["href"]>>,
     <<"absolute_url", UrlJoin(base_url, link.attrs["href"]).value>> >>

\* lines 155-164: the loop; urljoin's exception ends it
LinksOf(soup, base_url) ==
  LET anchors == FindAllAnchorsWithHref(soup)
      bad     == {i \in 1..Len(anchors) : UrlJoin(base_url, anchors[i].attrs["href"]).raised}
  IN  IF bad # {}
      THEN UrlJoin(base_url, anchors[CHOOSE i \in bad : \A j \in bad : i <= j].attrs["href"])
      ELSE [raised |-> FALSE,
            value  |-> [i \in 1..Len(anchors) |-> LinkRecord(anchors[i], base_url)]]

\* lines 151-168: client.get completed with `outcome`
ExtractLinksResume(fr, outcome) ==
  IF outcome.kind = "error" THEN Raised(outcome.exc, 0)
  ELSE IF RaiseForStatus(outcome).raised THEN Raised(RaiseForStatus(outcome), 0)
  ELSE LET links == LinksOf(BeautifulSoup(outcome.text), fr.base_url)
       IN  IF links.raised THEN Raised(links, 1)
           ELSE Return(CallToolResultOk(<<TextContent(JsonArray(links.value))>>),
                       links.value, 1)

-----------------------------------------------------------------------------
(* extract_text *)

\* lines 176-180
ExtractedText(soup, selector) ==
  IF selector # ""
  THEN LET elements == Select(soup, selector)
       IN  IF elements.raised THEN elements
           ELSE [raised |-> FALSE,
                 value  |-> Join([i \in 1..Len(elements.value) |->
                                    ElementText(elements.value[i])], "\n")]
  ELSE [raised |-> FALSE, value |-> GetText(soup)]

\* an extract_text that reads selector with args["selector"]
ExtractTextSelectorRequired(args) ==
  IF "html" \notin DOMAIN args THEN Raised(KeyError("html"), 0)
  ELSE IF "selector" \notin DOMAIN args THEN Raised(KeyError("selector"), 0)
  ELSE LET text == ExtractedText(BeautifulSoup(args["html"]), args["selector"])
       IN  IF text.raised THEN Raised(text, 1)
           ELSE Return(CallToolResultOk(<<TextContent(text.value)>>), text.value, 1)

\* lines 171-184; args.get("selector") is None when absent, falsy like ""
ExtractText(args) ==
  IF "html" \notin DOMAIN args THEN Raised(KeyError("html"), 0)
  ELSE LET text == ExtractedText(BeautifulSoup(args["html"]), Get(args, "selector", ""))
       IN  IF text.raised THEN Raised(text, 1)
           ELSE Return(CallToolResultOk(<<TextContent(text.value)>>), text.value, 1)

-----------------------------------------------------------------------------
(* handle_call_tool *)

\* a chain whose else branch falls back to fetch_url
DispatchFallback(n, a) ==
  IF n = "extract_links" THEN ExtractLinksBegin(OrEmpty(a))
  ELSE IF n = "extract_text" THEN ExtractText(OrEmpty(a))
  ELSE FetchUrlBegin(OrEmpty(a))

\* lines 100-107: the if/elif chain of the try block
Dispatch(n, a) ==
  IF n = "fetch_url" THEN FetchUrlBegin(OrEmpty(a))
  ELSE IF n = "extract_links" THEN ExtractLinksBegin(OrEmpty(a))
  ELSE IF n = "extract_text" THEN ExtractText(OrEmpty(a))
  ELSE Raised(Raise("ValueError", "Unknown tool: " \o n), 0)

\* the classes `except Exception` catches
ExceptionClasses ==
  {"KeyError", "ValueError", "HTTPStatusError", "ConnectError", "ReadTimeout",
   "SelectorSyntaxError"}

\* an error result that is not flagged
ErrorResultUnflagged(exc) == CallToolResult(<<TextContent("Error: " \o exc.msg)>>, FALSE)

\* lines 109-112: the result built by the except clause
ErrorResult(exc) == CallToolResult(<<TextContent("Error: " \o exc.msg)>>, TRUE)

\* an except clause that names ValueError and KeyError only
ExceptNarrow(step) ==
  IF step.kind = "raise" /\ step.exc.type \in {"ValueError", "KeyError"}
  THEN [kind |-> "return", value |-> ErrorResult(step.exc), local |-> <<>>,
        failure |-> step.exc, parses |-> step.parses]
  ELSE step

\* lines 99, 108-112: the try/except around a step of the handler
Except(step) ==
  IF step.kind = "raise" /\ step.exc.type \in ExceptionClasses
  THEN [kind |-> "return", value |-> ErrorResult(step.exc), local |-> <<>>,
        failure |-> step.exc, parses |-> step.parses]
  ELSE step

-----------------------------------------------------------------------------
(* The requests the transport delivers and what the network answers *)

ToolNames == {"fetch_url", "extract_links", "extract_text", "nonexistent", "fetch"}

Urls == {"https://example.com", "https://example.com/docs/index.html"}

BaseUrls == {"https://example.org/base/", ""}

Htmls == {"<title>Example</title><a href=/page>Link</a><a>Bare</a><p> A </p><p>B</p>", ""}

Selectors == {"p", "div", "p[", ""}

ArgumentMappings ==
  {None, EmptyDict, [timeout |-> 5], [base_url |-> "https://example.org/base/"],
   [selector |-> "p"]}
    \cup {[url |-> u] : u \in Urls}
    \cup {[url |-> u, timeout |-> 5] : u \in Urls}
    \cup {[url |-> u, base_url |-> b] : u \in Urls, b \in BaseUrls}
    \cup {[html |-> h] : h \in Htmls}
    \cup {[html |-> h, selector |-> c] : h \in Htmls, c \in Selectors}

StatusCodes == {200, 204, 301, 404, 500}

HeaderSets ==
  {"content-type" :> "text/html; charset=utf-8",
   "content-type" :> "application/json",
   [server |-> "nginx"]}

\* client.get(url) either raises or returns a response; redirects are not
\* followed, so response.url is the requested url
Outcomes(url) ==
  {[kind |-> "error", exc |-> Raise("ConnectError", "All connection attempts failed")],
   [kind |-> "error", exc |-> Raise("ReadTimeout", "")]}
    \cup {[kind |-> "response", url |-> url, status_code |-> c, headers |-> h, text |-> t] :
            c \in StatusCodes, h \in HeaderSets, t \in Markups}

NoFrame == [tool |-> "none"]
NoResponse == [kind |-> "none"]

-----------------------------------------------------------------------------
(* The state machine *)

Init ==
  /\ pc = "idle"
  /\ name = ""
  /\ arguments = None
  /\ frame = NoFrame
  /\ response = NoResponse
  /\ result = <<>>
  /\ failure = NoFailure
  /\ returned = <<>>
  /\ escaped = 0
  /\ gets = 0
  /\ parses = 0
  /\ listed = None
  /\ served = 0

\* the effect of one step of handle_call_tool on the invocation
Apply(step) ==
  /\ pc' = IF step.kind = "await" THEN "awaiting" ELSE "returned"
  /\ frame' = IF step.kind = "await" THEN step.frame ELSE frame
  /\ gets' = IF step.kind = "await" THEN gets + 1 ELSE gets
  /\ parses' = parses + step.parses
  /\ returned' = IF step.kind = "return" THEN Append(returned, step.value) ELSE returned
  /\ result' = IF step.kind = "return" THEN step.local ELSE result
  /\ failure' = IF step.kind = "return" THEN step.failure
                ELSE IF step.kind = "raise" THEN step.exc ELSE failure
  /\ escaped' = IF step.kind = "raise" THEN escaped + 1 ELSE escaped

\* the handler resumed when client.get completes
Resume(fr, outcome) ==
  IF fr.tool = "fetch_url" THEN FetchUrlResume(fr, outcome)
  ELSE ExtractLinksResume(fr, outcome)

\* a list-tools request; it shares nothing with a call in flight
ListTools ==
  /\ listed' = HandleListTools
  /\ served' = Min(served + 1, MaxServed)
  /\ UNCHANGED <<pc, name, arguments, frame, response, result, failure, returned,
                 escaped, gets, parses>>

\* a call-tool request: handle_call_tool runs to its first await or to its end
CallTool(n, a) ==
  /\ pc = "idle"
  /\ name' = n
  /\ arguments' = a
  /\ \E step \in {Except(Dispatch(n, a))} : Apply(step)
  /\ UNCHANGED <<response, listed, served>>

\* client.get completes: the handler runs from line 119/151 to its end
GetCompletes ==
  /\ pc = "awaiting"
  /\ \E outcome \in Outcomes(frame.url) :
       /\ response' = outcome
       /\ \E step \in {Except(Resume(frame, outcome))} : Apply(step)
  /\ UNCHANGED <<name, arguments, listed, served>>

\* the transport takes the result; the invocation is discarded
Deliver ==
  /\ pc = "returned"
  /\ pc' = "idle"
  /\ name' = ""
  /\ arguments' = None
  /\ frame' = NoFrame
  /\ response' = NoResponse
  /\ result' = <<>>
  /\ failure' = NoFailure
  /\ returned' = <<>>
  /\ gets' = 0
  /\ parses' = 0
  /\ served' = Min(served + 1, MaxServed)
  /\ UNCHANGED <<escaped, listed>>

Next ==
  \/ ListTools
  \/ \E n \in ToolNames, a \in ArgumentMappings : CallTool(n, a)
  \/ GetCompletes
  \/ Deliver

Spec == Init /\ [][Next]_vars

-----------------------------------------------------------------------------
(* Properties *)

CatalogNames == {"fetch_url", "extract_links", "extract_text"}
FetchingTools == {"fetch_url", "extract_links"}

\* the invocation has ended and handed `returned` to the transport
Ended == pc = "returned"

\* the response of the current invocation has a non-2xx status
NonSuccessStatus ==
  /\ response.kind = "response"
  /\ (response.status_code < 200 \/ response.status_code > 299)

\* the required argument of a catalog tool, from its schema
Required(n) ==
  (CHOOSE t \in {Catalog[i] : i \in 1..Len(Catalog)} : t.name = n).inputSchema.required[1]

MissingRequired(n, a) == a = None \/ Required(n) \notin DOMAIN a

\* the anchors with an href attribute in the page received, in document order
AnchorsReceived ==
  SelectSeq((CHOOSE d \in Documents : d.text = response.text).contents,
            LAMBDA el : el.tag = "a" /\ "href" \in DOMAIN el.attrs)

\* the base the caller asked for: base_url when supplied, else url
RequestedBase ==
  IF "base_url" \in DOMAIN arguments THEN arguments["base_url"] ELSE arguments["url"]

\* C1: every call-tool invocation, whatever its name, arguments and request
\* outcome, ends with exactly one ToolResult handed to the transport, and no
\* exception ever leaves handle_call_tool.
C1_ExactlyOneResult ==
  /\ escaped = 0
  /\ Len(returned) = IF Ended THEN 1 ELSE 0
  /\ Ended => /\ Len(returned[1].content) = 1
              /\ returned[1].content[1].type = "text"
              /\ returned[1].isError \in BOOLEAN

C1_Witness ==
  /\ Ended
  /\ name = "fetch_url"
  /\ response.kind = "error"
  /\ response.exc.type = "ReadTimeout"
  /\ Len(returned) = 1

\* C2: when a handler fails, the ToolResult is flagged is-error and holds the
\* single text "Error: " followed by the failure's message; a handler that
\* completed without failure never yields a flagged result.
C2_ErrorEnvelope ==
  (Ended /\ name \in CatalogNames) =>
     IF failure.raised
     THEN returned = << [content |-> << [type |-> "text",
                                         text |-> "Error: " \o failure.msg] >>,
                         isError |-> TRUE] >>
     ELSE \A i \in 1..Len(returned) : ~returned[i].isError

C2_Witness ==
  /\ Ended
  /\ name = "extract_links"
  /\ failure.raised
  /\ failure.type = "HTTPStatusError"
  /\ returned[1].content[1].text
       = "Error: Client error '404' for url 'https://example.com'"

\* C3 as stated: a catalog tool called with valid arguments returns
\* is-error=false.
C3_ValidArgumentsNeverError ==
  (Ended /\ name \in CatalogNames /\ ~MissingRequired(name, arguments))
     => ~returned[1].isError

\* the handler of a validly called catalog tool fails: the request raises, the
\* status is not 2xx, an href of the page does not resolve, or the selector is
\* malformed
HandlerFails ==
  \/ /\ name \in FetchingTools
     /\ (response.kind = "error" \/ NonSuccessStatus)
  \/ /\ name = "extract_links"
     /\ response.kind = "response"
     /\ ~NonSuccessStatus
     /\ \E i \in 1..Len(AnchorsReceived) :
           UrlJoin(RequestedBase, AnchorsReceived[i].attrs["href"]).raised
  \/ /\ name = "extract_text"
     /\ "selector" \in DOMAIN arguments
     /\ Contains(arguments["selector"], "[") # Contains(arguments["selector"], "]")

\* C3 (amended): a catalog tool called with valid arguments returns
\* is-error=false exactly when its handler does not fail, that is unless the
\* request raises, the status is not 2xx, an href does not resolve or the
\* selector is malformed; in those cases it returns is-error=true.
C3_ValidArgumentsErrorIffHandlerFails ==
  (Ended /\ name \in CatalogNames /\ ~MissingRequired(name, arguments))
     => (returned[1].isError <=> HandlerFails)

C3_Witness ==
  /\ Ended
  /\ name = "extract_links"
  /\ ~MissingRequired(name, arguments)
  /\ response.kind = "response"
  /\ response.status_code = 200
  /\ failure.raised
  /\ failure.type = "ValueError"
  /\ returned[1].isError

\* C4: a call that lacks its required argument (or has no argument mapping)
\* returns is-error=true without having issued a GET or parsed any HTML.
C4_MissingArgumentNoExecution ==
  (pc # "idle" /\ name \in CatalogNames /\ MissingRequired(name, arguments))
     => /\ Ended
        /\ returned[1].isError
        /\ gets = 0
        /\ parses = 0

C4_Witness ==
  /\ Ended
  /\ name = "extract_links"
  /\ arguments = None
  /\ returned[1].isError
  /\ returned[1].content[1].text = "Error: 'url'"

\* C5: a call whose name is not in the catalog returns the flagged single
\* text "Error: Unknown tool: <name>"; no handler runs and no GET is issued.
C5_UnknownTool ==
  (pc # "idle" /\ name \notin CatalogNames)
     => /\ Ended
        /\ returned = << [content |-> << [type |-> "text",
                                          text |-> "Error: Unknown tool: " \o name] >>,
                          isError |-> TRUE] >>
        /\ frame = NoFrame
        /\ gets = 0
        /\ parses = 0

C5_Witness ==
  /\ Ended
  /\ name = "nonexistent"
  /\ arguments = [url |-> "https://example.com"]
  /\ returned[1].content[1].text = "Error: Unknown tool: nonexistent"

\* C6: in fetch_url and extract_links a non-2xx response always yields an
\* error result, before any result is shaped or any HTML is parsed.
C6_NonSuccessStatusIsError ==
  (Ended /\ NonSuccessStatus)
     => /\ returned[1].isError
        /\ parses = 0
        /\ result = <<>>

C6_Witness ==
  /\ Ended
  /\ name = "extract_links"
  /\ response.kind = "response"
  /\ response.status_code = 301
  /\ response.text # ""
  /\ returned[1].isError

\* C7: list-tools returns the same three descriptors, fetch_url,
\* extract_links, extract_text, in that order, on every call: its output
\* never differs from the previous one, whatever calls came in between.
C7_CatalogFixed ==
  [][ listed' # None =>
        /\ [i \in 1..Len(listed'.tools) |-> listed'.tools[i].name]
             = <<"fetch_url", "extract_links", "extract_text">>
        /\ (listed # None => listed' = listed) ]_vars

C7_Witness ==
  /\ listed # None
  /\ Len(listed.tools) = 3
  /\ served = MaxServed
  /\ Ended
  /\ failure.raised

\* C8: a successful fetch_url result has title and text_content exactly when
\* the content-type contains "text/html"; text_content is then the first 1000
\* characters of the visible text followed by "...", at most 1003 long;
\* otherwise the result has url, status_code, content_type and content only,
\* content being the raw body.
C8_FetchResultShape ==
  (Ended /\ name = "fetch_url" /\ ~returned[1].isError) =>
     LET ct      == IF "content-type" \in DOMAIN response.headers
                    THEN response.headers["content-type"] ELSE ""
         visible == GetText(BeautifulSoup(response.text))
         preview == Field(result, "text_content")
     IN  /\ "title" \in Keys(result) <=> Contains(ct, "text/html")
         /\ "text_content" \in Keys(result) <=> Contains(ct, "text/html")
         /\ Field(result, "content") = response.text
         /\ IF Contains(ct, "text/html")
            THEN /\ Len(preview) <= 1003
                 /\ Len(preview) >= 3
                 /\ SubSeq(preview, Len(preview) - 2, Len(preview)) = "..."
                 /\ SubSeq(preview, 1, Len(preview) - 3)
                      = SubSeq(visible, 1, Min(1000, Len(visible)))
            ELSE Keys(result) = {"url", "status_code", "content_type", "content"}

C8_Witness ==
  /\ Ended
  /\ name = "fetch_url"
  /\ ~returned[1].isError
  /\ "text_content" \in Keys(result)
  /\ Field(result, "title") = "Example"
  /\ Field(result, "text_content") = "ExampleLinkBareAB..."

\* C9: a successful extract_links returns one record per anchor that has an
\* href, in document order, and none for an anchor without one; absolute_url
\* is the href resolved against base_url when supplied, else against url.
C9_LinkRecords ==
  (Ended /\ name = "extract_links" /\ ~returned[1].isError) =>
     /\ Len(result) = Len(AnchorsReceived)
     /\ \A i \in 1..Len(AnchorsReceived) :
          /\ Field(result[i], "href") = AnchorsReceived[i].attrs["href"]
          /\ Field(result[i], "text") = Strip(AnchorsReceived[i].text)
          /\ Field(result[i], "absolute_url")
               = UrlJoin(RequestedBase, AnchorsReceived[i].attrs["href"]).value

C9_Witness ==
  /\ Ended
  /\ name = "extract_links"
  /\ ~returned[1].isError
  /\ arguments = [url |-> "https://example.com/docs/index.html",
                  base_url |-> "https://example.org/base/"]
  /\ Len(result) = 3
  /\ Field(result[1], "absolute_url") = "https://example.org/up"

\* C10: no invocation retries: at most one GET per invocation, none for
\* extract_text and unknown tools, and the step after the GET completes is
\* the return of the result, an error result when the GET failed.
C10_NoRetry ==
  [][ /\ gets' <= 1
      /\ name' \notin FetchingTools => gets' = 0
      /\ (pc = "awaiting" /\ response' # response)
           => /\ pc' = "returned"
              /\ gets' = gets
              /\ Len(returned') = 1
              /\ response'.kind = "error" => returned'[1].isError ]_vars

C10_Witness ==
  /\ Ended
  /\ gets = 1
  /\ response.kind = "error"
  /\ response.exc.type = "ConnectError"
  /\ returned[1].isError

====
